---- MODULE Spec2Model ----
(***************************************************************************)
(* Verification model of the academic portfolio site:                      *)
(*   - js/navigation.js: the three navigation behaviours and their         *)
(*     initialisation block, run against a browser document;               *)
(*   - the gulpfile: the vendor, css and dev tasks.                        *)
(* Each subsystem has its own specification (SpecNav, SpecVendor, SpecCss, *)
(* SpecDev); the variables of the others stay at their initial values.     *)
(*   - the jest tests that check the conventions of the page documents and *)
(*     stylesheets (tests/*.test.js), under SpecCheck: a describe block is *)
(*     run on one file, present or missing, drawn from a bounded set.      *)
(***************************************************************************)
EXTENDS Integers, Sequences, FiniteSets, TLC

(***************************************************************************)
(* Bounds of the model and constants of the program.                       *)
(***************************************************************************)
\* window.scrollY > 50 (navigation.js:16)
ScrollThreshold == 50
\* the number of anchor elements the document can hold
MaxLinks == 1
\* offsetHeight of the navbar with the mobile menu collapsed
CollapsedHeight == 56
\* what the expanded mobile menu adds to the navbar's offsetHeight
MenuHeight == 40
\* offsetTop of the one element that an in-page href can name
TargetTop == 110

\* how many versions of the bootstrap package the dependency cache can hold
MaxVersion == 2
\* how often the build tasks are run in one behaviour
MaxRuns == 2
\* the longest chain of .min suffixes of a stylesheet in css/ at the start
MaxMin == 1

\* the number of tags of one kind in a page the tests are run on
MaxAnchors == 2
MaxHeadings == 3
MaxImages == 2
\* the number of resources a page refers to, and of repeated references
MaxResources == 16
MaxRepeats == 2
\* the number of entries of the publications page
MaxEntries == 2
\* the number of spacing variables of css/variables.css
MaxSpacing == 5
\* the number of page documents a test goes through with forEach
MaxFiles == 2
\* the number of tags of a page the lazy loading test is run on
MaxTags == 4
\* the number of rule blocks of css/components.css
MaxRules == 2
\* the number of elements with a style attribute in a page
MaxStyles == 1

LinkIds == 1..MaxLinks

\* The href values an anchor is given.  "#" is the bare hash, "#a" names the
\* element with id "a" (which exists), "#b" names no element, "p.html" is
\* another page.
Hrefs == {"#", "#a", "#b", "p.html"}

NoLink == [href |-> "", nav |-> FALSE]
Links == [href : Hrefs, nav : BOOLEAN]

\* the scroll offsets the page is scrolled to: the top, the threshold of
\* line 16 and the first offset past it
ScrollOffsets == {0, ScrollThreshold, ScrollThreshold + 1}

VARIABLES
    \* ---- navigation.js and the document it runs in
    readyState,       \* document.readyState
    scriptRun,        \* the script's top-level function has been evaluated
    dclListeners,     \* listeners registered for DOMContentLoaded
    dclFired,         \* DOMContentLoaded has been dispatched
    initCalls,        \* how often the three init functions have been called
    hasNavbar,        \* the document has a .navbar element
    hasCollapse,      \* the document has a .navbar-collapse element
    scrolled,         \* the navbar carries the class navbar-scrolled
    scrollY,          \* window.scrollY
    scrollPending,    \* a scroll event is waiting to be dispatched
    scrollListeners,  \* scroll listeners registered on window
    links,            \* the anchors of the document, by element
    smoothL,          \* click listeners of initSmoothScroll, per anchor
    closeL,           \* click listeners of initMobileMenuAutoClose, per anchor
    show,             \* .navbar-collapse carries the class show
    instance,         \* bootstrap.Collapse.getInstance(navbarCollapse) is non-null
    atInit,           \* the anchors that were in the document when the init functions ran
    last              \* what the last step did

navVars == <<readyState, scriptRun, dclListeners, dclFired, initCalls, hasNavbar,
             hasCollapse, scrolled, scrollY, scrollPending, scrollListeners,
             links, smoothL, closeL, show, instance, atInit, last>>

VARIABLES
    \* ---- the gulpfile's vendor and clean tasks and the trees they work on
    jquery,           \* ./vendor/jquery exists
    vendorTree,       \* ./vendor/bootstrap: file name -> content (Absent if none)
    distVersion,      \* the version of node_modules/bootstrap/dist
    vTask,            \* the task gulp is running or has run last
    vStep,            \* 0: not started; i: in the i-th function of the series
    vGlobbed,         \* gulp.src of vendor() has enumerated its files
    vPending,         \* the files vendor() has still to write
    vRuns,            \* the number of runs started
    vSnap,            \* ./vendor/bootstrap as the current run found it
    vVersion,         \* the version of dist when the current run started
    vPrev,            \* the task and dist version of the run before, if any
    hadJquery         \* ./vendor/jquery existed when the current run started

vendorVars == <<jquery, vendorTree, distVersion, vTask, vStep, vGlobbed, vPending,
                vRuns, vSnap, vVersion, vPrev, hadJquery>>

VARIABLES
    \* ---- the css task
    css,              \* ./css: file name -> content (Absent if none)
    cStep,            \* "idle", "glob", "write" or "done"
    cPending,         \* the files minifyCSS has read and still has to write
    cInputs,          \* the files gulp.src of minifyCSS enumerated in this run
    cRuns,            \* the number of runs started
    css0,             \* ./css before the first run
    cSnap             \* ./css as the current run found it

cssVars == <<css, cStep, cPending, cInputs, cRuns, css0, cSnap>>

VARIABLES
    \* ---- the dev task
    dPhase,           \* "idle", "serve", "watch", "watching" or "done"
    served,           \* browserSync.init has been called
    watch,            \* per kind of file, the watcher gulp.watch made for it
    reloading,        \* the kinds whose reload callback is executing
    dirty             \* when the changes not yet followed by a reload were made

devVars == <<dPhase, served, watch, reloading, dirty>>

VARIABLES
    \* ---- the convention checks (tests/*.test.js), run on one file
    suite,            \* the describe block that is run, by the name used here
    exists,           \* fs.existsSync of the file the tests read
    page,             \* the text of that file: its tags, in document order
    verdict,          \* test -> "none" (not run yet), "pass", "fail" or "throw"
    files,            \* the files a test goes through with htmlFiles.forEach
    cursor            \* how many of them the callback has been called on

checkVars == <<suite, exists, page, verdict, files, cursor>>

vars == <<navVars, vendorVars, cssVars, devVars, checkVars>>

\* what a step of one subsystem leaves alone
NavFrame == UNCHANGED <<vendorVars, cssVars, devVars, checkVars>>
VendorFrame == UNCHANGED <<navVars, cssVars, devVars, checkVars>>
CssFrame == UNCHANGED <<navVars, vendorVars, devVars, checkVars>>
DevFrame == UNCHANGED <<navVars, vendorVars, cssVars, checkVars>>
CheckFrame == UNCHANGED <<navVars, vendorVars, cssVars, devVars>>

\* What one step reports: the operation, the anchor it was about, and what
\* the listeners it ran did: whether e.preventDefault() was called, the top
\* of every window.scrollTo request, and the number of hide() calls.
Report(op, l, c) ==
    [op |-> op, link |-> l,
     prevented |-> c.prevented, reqs |-> c.reqs, hides |-> c.hides]

\* The context the listeners of one event run in.
Ctx0 == [show |-> show, scrolled |-> scrolled,
         prevented |-> FALSE, reqs |-> <<>>, hides |-> 0]

(***************************************************************************)
(* initNavbarScrollBehavior (navigation.js:10-28)                          *)
(***************************************************************************)
\* the comparison of line 16 written >= instead of >
updateNavbarOnScroll_ge(c, y) ==
    [c EXCEPT !.scrolled = (y >= ScrollThreshold)]

\* lines 15-21: classList.add / classList.remove on the navbar
updateNavbarOnScroll(c, y) ==
    [c EXCEPT !.scrolled = (y > ScrollThreshold)]

initNavbarScrollBehavior ==
    IF ~hasNavbar
      THEN UNCHANGED <<scrolled, scrollListeners>>
      ELSE /\ scrolled' = updateNavbarOnScroll(Ctx0, scrollY).scrolled
           /\ scrollListeners' = scrollListeners + 1

(***************************************************************************)
(* initSmoothScroll (navigation.js:31-58)                                  *)
(***************************************************************************)
\* the attribute selector a[href^="#"] of line 33
StartsWithHash(h) == h \in {"#", "#a", "#b"}

\* document.querySelector(href), line 42: the element's id, or "null" when
\* no element matches
querySelector(h) == IF h = "#a" THEN "a" ELSE "null"

offsetTop(t) == TargetTop

\* document.querySelector('.navbar')?.offsetHeight || 0, line 48; the navbar
\* is taller while the mobile menu inside it is expanded
navbarHeight(sh) ==
    IF hasNavbar
      THEN CollapsedHeight + (IF hasCollapse /\ sh THEN MenuHeight ELSE 0)
      ELSE 0

\* the listener with the navbar height left out of the target position
smoothScrollHandler_noOffset(l, c) ==
    LET href == links[l].href IN
    IF href = "" \/ href = "#"
      THEN c
      ELSE LET targetElement == querySelector(href) IN
           IF targetElement = "null"
             THEN c
             ELSE [c EXCEPT !.prevented = TRUE,
                            !.reqs = Append(@, offsetTop(targetElement))]

\* the listener with e.preventDefault() called before the target is looked up
smoothScrollHandler_preventFirst(l, c) ==
    LET href == links[l].href IN
    IF href = "" \/ href = "#"
      THEN c
      ELSE LET targetElement == querySelector(href) IN
           IF targetElement = "null"
             THEN [c EXCEPT !.prevented = TRUE]
             ELSE [c EXCEPT !.prevented = TRUE,
                            !.reqs = Append(@, offsetTop(targetElement)
                                               - navbarHeight(c.show))]

\* the click listener of lines 36-56, run on anchor l in context c
smoothScrollHandler(l, c) ==
    LET href == links[l].href IN
    IF href = "" \/ href = "#"
      THEN c
      ELSE LET targetElement == querySelector(href) IN
           IF targetElement = "null"
             THEN c
             ELSE [c EXCEPT !.prevented = TRUE,
                            !.reqs = Append(@, offsetTop(targetElement)
                                               - navbarHeight(c.show))]

initSmoothScroll ==
    smoothL' = [l \in LinkIds |->
                  IF links[l] # NoLink /\ StartsWithHash(links[l].href)
                    THEN smoothL[l] + 1 ELSE smoothL[l]]

(***************************************************************************)
(* initMobileMenuAutoClose (navigation.js:61-78)                           *)
(***************************************************************************)
\* bsCollapse.hide(), line 73: Bootstrap removes the class show
bsCollapseHide(c) == [c EXCEPT !.hides = @ + 1, !.show = FALSE]

\* the listener also taking the scrolled class off the navbar when it closes
\* the menu
autoCloseHandler_resetsNavbar(c) ==
    IF c.show
      THEN IF instance THEN [bsCollapseHide(c) EXCEPT !.scrolled = FALSE] ELSE c
      ELSE c

\* the click listener of lines 68-76
autoCloseHandler(c) ==
    IF c.show
      THEN IF instance THEN bsCollapseHide(c) ELSE c
      ELSE c

\* the function without the return of line 65
initMobileMenuAutoClose_noReturn ==
    closeL' = [l \in LinkIds |->
                 IF links[l] # NoLink /\ links[l].nav
                   THEN closeL[l] + 1 ELSE closeL[l]]

\* lines 62-77: the listener goes on every .navbar-nav .nav-link, unless
\* the document has no .navbar-collapse
initMobileMenuAutoClose ==
    IF ~hasCollapse
      THEN UNCHANGED closeL
      ELSE closeL' = [l \in LinkIds |->
                        IF links[l] # NoLink /\ links[l].nav
                          THEN closeL[l] + 1 ELSE closeL[l]]

(***************************************************************************)
(* The initialisation block (navigation.js:80-92)                          *)
(***************************************************************************)
\* the block without its else: the init functions also run right away
initBlock_noElse(rs) == [defer |-> rs = "loading", now |-> TRUE]

\* what the block does for a readyState: defer to DOMContentLoaded, or run now
initBlock(rs) == [defer |-> rs = "loading", now |-> rs # "loading"]

InitAll ==
    /\ initNavbarScrollBehavior
    /\ initSmoothScroll
    /\ initMobileMenuAutoClose
    /\ initCalls' = initCalls + 1
    /\ atInit' = {l \in LinkIds : links[l] # NoLink}

NoInit == UNCHANGED <<scrolled, scrollListeners, smoothL, closeL, initCalls, atInit>>

\* the browser evaluates the script element
EvalScript ==
    /\ ~scriptRun
    /\ scriptRun' = TRUE
    /\ dclListeners' = dclListeners + (IF initBlock(readyState).defer THEN 1 ELSE 0)
    /\ IF initBlock(readyState).now THEN InitAll ELSE NoInit
    /\ last' = Report(IF initBlock(readyState).now THEN "init" ELSE "env", 0, Ctx0)
    /\ UNCHANGED <<readyState, dclFired, hasNavbar, hasCollapse, scrollY,
                   scrollPending, links, show, instance>>
    /\ NavFrame

\* the parser reaches the end of the document
ParseDone ==
    /\ readyState = "loading"
    /\ readyState' = "interactive"
    /\ last' = Report("env", 0, Ctx0)
    /\ UNCHANGED <<atInit, scriptRun, dclListeners, dclFired, initCalls, hasNavbar,
                   hasCollapse, scrolled, scrollY, scrollPending, scrollListeners,
                   links, smoothL, closeL, show, instance>>
    /\ NavFrame

\* the browser dispatches DOMContentLoaded
DOMContentLoaded ==
    /\ readyState = "interactive"
    /\ ~dclFired
    /\ dclFired' = TRUE
    /\ IF dclListeners > 0 THEN InitAll ELSE NoInit
    /\ last' = Report(IF dclListeners > 0 THEN "init" ELSE "env", 0, Ctx0)
    /\ UNCHANGED <<readyState, scriptRun, dclListeners, hasNavbar, hasCollapse,
                   scrollY, scrollPending, links, show, instance>>
    /\ NavFrame

\* the document and its resources have loaded
Load ==
    /\ readyState = "interactive"
    /\ dclFired
    /\ readyState' = "complete"
    /\ last' = Report("env", 0, Ctx0)
    /\ UNCHANGED <<atInit, scriptRun, dclListeners, dclFired, initCalls, hasNavbar,
                   hasCollapse, scrolled, scrollY, scrollPending, scrollListeners,
                   links, smoothL, closeL, show, instance>>
    /\ NavFrame

(***************************************************************************)
(* Events the browser delivers to the listeners.                           *)
(***************************************************************************)
\* a listener registered n times runs n times (n <= 2 in every model here)
Twice(n, once, twice, c) == IF n = 0 THEN c ELSE IF n = 1 THEN once ELSE twice

\* the listeners of anchor l run with the one that closes the menu first
dispatchClick_closeFirst(l, c) ==
    LET a1 == autoCloseHandler(c)
        a  == Twice(closeL[l], a1, autoCloseHandler(a1), c)
        s1 == smoothScrollHandler(l, a)
    IN  Twice(smoothL[l], s1, smoothScrollHandler(l, s1), a)

\* the click listeners of anchor l, in the order they were registered:
\* initSmoothScroll ran before initMobileMenuAutoClose (lines 83-85, 89-91)
dispatchClick(l, c) ==
    LET s1 == smoothScrollHandler(l, c)
        s  == Twice(smoothL[l], s1, smoothScrollHandler(l, s1), c)
        a1 == autoCloseHandler(s)
    IN  Twice(closeL[l], a1, autoCloseHandler(a1), s)

\* the scroll listeners of window (line 27)
dispatchScroll(c) ==
    LET c1 == updateNavbarOnScroll(c, scrollY)
    IN  Twice(scrollListeners, c1, updateNavbarOnScroll(c1, scrollY), c)

\* the user clicks anchor l
Click(l) ==
    /\ links[l] # NoLink
    /\ LET c == dispatchClick(l, Ctx0)
       IN  /\ show' = c.show
           /\ scrolled' = c.scrolled
           /\ last' = Report("click", l, c)
    /\ UNCHANGED <<atInit, readyState, scriptRun, dclListeners, dclFired, initCalls,
                   hasNavbar, hasCollapse, scrollY, scrollPending,
                   scrollListeners, links, smoothL, closeL, instance>>
    /\ NavFrame

\* the page is scrolled to offset y, by the user or by the browser carrying
\* out a scroll request; the scroll event is dispatched later
Scroll(y) ==
    /\ y # scrollY
    /\ scrollY' = y
    /\ scrollPending' = TRUE
    /\ last' = Report("env", 0, Ctx0)
    /\ UNCHANGED <<atInit, readyState, scriptRun, dclListeners, dclFired, initCalls,
                   hasNavbar, hasCollapse, scrolled, scrollListeners, links,
                   smoothL, closeL, show, instance>>
    /\ NavFrame

\* the browser dispatches the scroll event
ScrollEvent ==
    /\ scrollPending
    /\ scrollPending' = FALSE
    /\ LET c == dispatchScroll(Ctx0)
       IN  /\ scrolled' = c.scrolled
           /\ show' = c.show
           /\ last' = Report("scroll", 0, c)
    /\ UNCHANGED <<atInit, readyState, scriptRun, dclListeners, dclFired, initCalls,
                   hasNavbar, hasCollapse, scrollY, scrollListeners, links,
                   smoothL, closeL, instance>>
    /\ NavFrame

\* the user presses the navbar toggler: Bootstrap's data API creates the
\* Collapse instance of the menu if there is none and toggles it
ToggleMenu ==
    /\ hasCollapse
    /\ instance' = TRUE
    /\ show' = ~show
    /\ last' = Report("env", 0, Ctx0)
    /\ UNCHANGED <<atInit, readyState, scriptRun, dclListeners, dclFired, initCalls,
                   hasNavbar, hasCollapse, scrolled, scrollY, scrollPending,
                   scrollListeners, links, smoothL, closeL>>
    /\ NavFrame

\* an anchor is added to the document, by the parser or by a script
AddLink(l, k) ==
    /\ links[l] = NoLink
    /\ links' = [links EXCEPT ![l] = k]
    /\ last' = Report("env", 0, Ctx0)
    /\ UNCHANGED <<atInit, readyState, scriptRun, dclListeners, dclFired, initCalls,
                   hasNavbar, hasCollapse, scrolled, scrollY, scrollPending,
                   scrollListeners, smoothL, closeL, show, instance>>
    /\ NavFrame

\* The document as the script finds it: with or without a navbar and a
\* collapsible menu, the menu expanded in the markup or not.
NavStart ==
    /\ readyState = "loading"
    /\ scriptRun = FALSE
    /\ dclListeners = 0
    /\ dclFired = FALSE
    /\ initCalls = 0
    /\ hasNavbar \in BOOLEAN
    /\ hasCollapse \in BOOLEAN
    /\ scrolled = FALSE
    /\ scrollY = 0
    /\ scrollPending = FALSE
    /\ scrollListeners = 0
    /\ links = [l \in LinkIds |-> NoLink]
    /\ smoothL = [l \in LinkIds |-> 0]
    /\ closeL = [l \in LinkIds |-> 0]
    /\ show \in (IF hasCollapse THEN BOOLEAN ELSE {FALSE})
    /\ instance = FALSE
    /\ atInit = {}
    /\ last = [op |-> "start", link |-> 0,
               prevented |-> FALSE, reqs |-> <<>>, hides |-> 0]

(***************************************************************************)
(* The gulpfile (tests/layout.test.js:470-556): vendor and clean tasks.    *)
(***************************************************************************)
Absent == <<>>

\* the files of node_modules/bootstrap/dist
DistFiles == {"css/bootstrap.css", "js/bootstrap.js",
              "css/bootstrap-grid.css", "css/bootstrap-reboot.css"}

\* the files ./vendor/bootstrap can hold: those of the package and one that
\* no version of the package in the cache has
VendorFiles == DistFiles \cup {"js/popper.js"}

Versions == 1..MaxVersion

\* the content of a file of version v of the package
distContent(v) == <<v>>

\* the globs of gulp.src in vendor() without the two negated ones
vendorGlobs_all == DistFiles

\* the globs of gulp.src in vendor(), lines 505-509: all of dist but the
\* bootstrap-grid and bootstrap-reboot stylesheets
vendorGlobs ==
    DistFiles \ {"css/bootstrap-grid.css", "css/bootstrap-reboot.css"}

\* gulp.dest writing new over a file with content old (line 510)
gulpDest_append(old, new) == old \o new

gulpDest(old, new) == new

\* the series of exports.vendor with the two functions the other way round
vendorSeries_copyFirst == <<"vendor", "cleanVendor">>

\* gulp.series(cleanVendor, vendor), line 547
vendorSeries == <<"cleanVendor", "vendor">>

\* exports.clean, exports.vendor and exports.default, lines 544-556
TaskSteps(t) ==
    CASE t = "clean" -> <<"cleanVendor">>
      [] t \in {"vendor", "default"} -> vendorSeries
      [] OTHER -> <<>>

VendorTasks == {"clean", "vendor", "default"}

vCurrent ==
    IF vStep >= 1 /\ vStep <= Len(TaskSteps(vTask))
      THEN TaskSteps(vTask)[vStep] ELSE "none"

vDone == vStep > Len(TaskSteps(vTask))

\* gulp is started with the name of a task
StartTask(t) ==
    /\ vStep = 0 \/ vDone
    /\ vRuns < MaxRuns
    /\ vTask' = t
    /\ vStep' = 1
    /\ vRuns' = vRuns + 1
    /\ vSnap' = vendorTree
    /\ vVersion' = distVersion
    /\ vPrev' = [task |-> vTask, version |-> vVersion]
    /\ hadJquery' = jquery
    /\ vGlobbed' = FALSE
    /\ vPending' = {}
    /\ UNCHANGED <<jquery, vendorTree, distVersion>>
    /\ VendorFrame

\* cleanVendor(cb), lines 493-500
cleanVendor ==
    /\ vCurrent = "cleanVendor"
    /\ jquery' = (IF jquery THEN FALSE ELSE jquery)
    /\ vStep' = vStep + 1
    /\ UNCHANGED <<vendorTree, distVersion, vTask, vGlobbed, vPending, vRuns,
                   vSnap, vVersion, vPrev, hadJquery>>
    /\ VendorFrame

\* vendor(), lines 503-511: gulp.src enumerates the files of its globs
vendorSrc ==
    /\ vCurrent = "vendor"
    /\ ~vGlobbed
    /\ vGlobbed' = TRUE
    /\ vPending' = vendorGlobs
    /\ UNCHANGED <<jquery, vendorTree, distVersion, vTask, vStep, vRuns, vSnap,
                   vVersion, vPrev, hadJquery>>
    /\ VendorFrame

\* vendor(): gulp.dest writes one of the files
vendorDest(f) ==
    /\ vCurrent = "vendor"
    /\ vGlobbed
    /\ f \in vPending
    /\ vendorTree' = [vendorTree EXCEPT
                        ![f] = gulpDest(@, distContent(distVersion))]
    /\ vPending' = vPending \ {f}
    /\ UNCHANGED <<jquery, distVersion, vTask, vStep, vGlobbed, vRuns, vSnap,
                   vVersion, vPrev, hadJquery>>
    /\ VendorFrame

\* vendor(): the stream ends, and with it the function
vendorEnd ==
    /\ vCurrent = "vendor"
    /\ vGlobbed
    /\ vPending = {}
    /\ vStep' = vStep + 1
    /\ vGlobbed' = FALSE
    /\ UNCHANGED <<jquery, vendorTree, distVersion, vTask, vPending, vRuns,
                   vSnap, vVersion, vPrev, hadJquery>>
    /\ VendorFrame

\* between two runs the package in node_modules is upgraded
NpmUpdate ==
    /\ vStep = 0 \/ vDone
    /\ distVersion < MaxVersion
    /\ distVersion' = distVersion + 1
    /\ UNCHANGED <<jquery, vendorTree, vTask, vStep, vGlobbed, vPending, vRuns,
                   vSnap, vVersion, vPrev, hadJquery>>
    /\ VendorFrame

VendorStart ==
    /\ jquery \in BOOLEAN
    /\ vendorTree \in [VendorFiles -> {Absent} \cup {distContent(v) : v \in Versions}]
    /\ distVersion \in Versions
    /\ vTask = "none"
    /\ vStep = 0
    /\ vGlobbed = FALSE
    /\ vPending = {}
    /\ vRuns = 0
    /\ vSnap = vendorTree
    /\ vVersion = 0
    /\ vPrev = [task |-> "none", version |-> 0]
    /\ hadJquery = jquery

\* the trees before any task has run, for the specifications of the other
\* subsystems
VendorIdle ==
    /\ jquery = FALSE
    /\ vendorTree = [f \in VendorFiles |-> Absent]
    /\ distVersion = 1
    /\ vTask = "none"
    /\ vStep = 0
    /\ vGlobbed = FALSE
    /\ vPending = {}
    /\ vRuns = 0
    /\ vSnap = vendorTree
    /\ vVersion = 0
    /\ vPrev = [task |-> "none", version |-> 0]
    /\ hadJquery = FALSE

(***************************************************************************)
(* The gulpfile: the css task.                                             *)
(***************************************************************************)
\* A file of ./css is named base, then n times .min, then .css.
CssBases == {"base", "components"}
CssFiles == [base : CssBases, mins : 0..(MaxMin + 1)]

\* what a stylesheet holds: rules, and white space and comments between them
CssTexts == {<<"rule">>, <<"space", "rule">>}

\* cleanCSS(), line 516: white space and comments go, the rules stay
NotSpace(t) == t # "space"
cleanCSS(text) == SelectSeq(text, NotSpace)

\* rename({ suffix: '.min' }), line 517
rename(n) == [n EXCEPT !.mins = @ + 1]

\* the globs of gulp.src in minifyCSS(), line 515, without the second one
minifyGlobs_noNegation(n) == TRUE

\* './css/*.css' and '!./css/*.min.css': every file of css/ matches the
\* first glob, and those with a .min suffix match the negated one
minifyGlobs(n) == n.mins = 0

\* gulp is started with the task css
StartCss ==
    /\ cStep \in {"idle", "done"}
    /\ cRuns < MaxRuns
    /\ cStep' = "glob"
    /\ cRuns' = cRuns + 1
    /\ cSnap' = css
    /\ cInputs' = {}
    /\ UNCHANGED <<css, cPending, css0>>
    /\ CssFrame

\* minifyCSS(), lines 514-519: gulp.src enumerates the files of its globs
minifySrc ==
    /\ cStep = "glob"
    /\ cStep' = "write"
    /\ cInputs' = {n \in CssFiles : css[n] # Absent /\ minifyGlobs(n)}
    /\ cPending' = cInputs'
    /\ UNCHANGED <<css, cRuns, css0, cSnap>>
    /\ CssFrame

\* minifyCSS(): one file goes through cleanCSS and rename and is written
minifyDest(n) ==
    /\ cStep = "write"
    /\ n \in cPending
    /\ cPending' = cPending \ {n}
    /\ css' = IF rename(n) \in CssFiles
                THEN [css EXCEPT ![rename(n)] = gulpDest(@, cleanCSS(css[n]))]
                ELSE css
    /\ UNCHANGED <<cStep, cInputs, cRuns, css0, cSnap>>
    /\ CssFrame

\* minifyCSS(): the stream ends
minifyEnd ==
    /\ cStep = "write"
    /\ cPending = {}
    /\ cStep' = "done"
    /\ UNCHANGED <<css, cPending, cInputs, cRuns, css0, cSnap>>
    /\ CssFrame

CssStart ==
    /\ css \in {t \in [CssFiles -> {Absent} \cup CssTexts] :
                  \A n \in CssFiles : n.mins > MaxMin => t[n] = Absent}
    /\ cStep = "idle"
    /\ cPending = {}
    /\ cInputs = {}
    /\ cRuns = 0
    /\ css0 = css
    /\ cSnap = css

CssIdle ==
    /\ css = [n \in CssFiles |-> Absent]
    /\ cStep = "idle"
    /\ cPending = {}
    /\ cInputs = {}
    /\ cRuns = 0
    /\ css0 = css
    /\ cSnap = css

(***************************************************************************)
(* The gulpfile: the dev task.                                             *)
(***************************************************************************)
\* the kinds of file the task watches: stylesheets (./css/*.css) and page
\* documents (./*.html)
Kinds == {"css", "html"}

NoWatcher == [on |-> FALSE, timer |-> FALSE, running |-> FALSE, queued |-> FALSE]

\* watchFiles() with the watcher of the page documents left out
watchFiles_cssOnly == {"css"}

\* watchFiles(), lines 538-541: one gulp.watch for each kind
watchFiles == {"css", "html"}

\* gulp.series(watchFiles, browserSyncServe): the two functions the other
\* way round
devSeries_watchFirst == <<"watch", "serve">>

\* exports.dev = gulp.series(browserSyncServe, watchFiles), line 553
devSeries == <<"serve", "watch">>

\* the phase the series enters when its i-th function has signalled
\* completion; the task itself completes after the last one
afterStep(i) == IF i < Len(devSeries) THEN devSeries[i + 1] ELSE "done"

stepOf(f) == CHOOSE i \in 1..Len(devSeries) : devSeries[i] = f

\* gulp is started with the task dev (exports.dev, line 553)
StartDev ==
    /\ dPhase = "idle"
    /\ dPhase' = devSeries[1]
    /\ UNCHANGED <<served, watch, reloading, dirty>>
    /\ DevFrame

\* browserSyncServe(cb), lines 522-529; cb() lets the series go on
browserSyncServe ==
    /\ dPhase = "serve"
    /\ served' = TRUE
    /\ dPhase' = afterStep(stepOf("serve"))
    /\ UNCHANGED <<watch, reloading, dirty>>
    /\ DevFrame

\* the series calls watchFiles(), which registers the watchers and never
\* signals completion
watchFilesCall ==
    /\ dPhase = "watch"
    /\ watch' = [k \in Kinds |->
                   IF k \in watchFiles THEN [watch[k] EXCEPT !.on = TRUE]
                   ELSE watch[k]]
    /\ dPhase' = "watching"
    /\ UNCHANGED <<served, reloading, dirty>>
    /\ DevFrame

\* a file of kind k is changed on disk while the task runs; a registered
\* watcher (re)starts its debounce timer
FileChange(k) ==
    /\ dPhase # "idle"
    /\ watch' = IF watch[k].on THEN [watch EXCEPT ![k].timer = TRUE] ELSE watch
    /\ dirty' = dirty \cup {IF dPhase = "watching" THEN "watching" ELSE "startup"}
    /\ UNCHANGED <<dPhase, served, reloading>>
    /\ DevFrame

\* the debounce timer of gulp.watch expires: the task is started, or queued
\* when it is running (lines 539-540)
TimerFire(k) ==
    /\ watch[k].timer
    /\ watch' = [watch EXCEPT ![k] =
                   IF @.running
                     THEN [@ EXCEPT !.timer = FALSE, !.queued = TRUE]
                     ELSE [@ EXCEPT !.timer = FALSE, !.running = TRUE]]
    /\ UNCHANGED <<dPhase, served, reloading, dirty>>
    /\ DevFrame

\* a runtime that starts a callback while another is executing
callbackMayStart_parallel(r) == TRUE

\* browserSyncReload is a synchronous function (lines 532-535) called from
\* the event loop of the gulp process: a callback is started only when none
\* is executing
callbackMayStart(r) == r = {}

\* the event loop calls browserSyncReload(cb) for watcher k
ReloadBegin(k) ==
    /\ watch[k].running
    /\ k \notin reloading
    /\ callbackMayStart(reloading)
    /\ reloading' = reloading \cup {k}
    /\ UNCHANGED <<dPhase, served, watch, dirty>>
    /\ DevFrame

\* browserSyncReload(cb), lines 532-535: browserSync.reload(), then cb(),
\* after which gulp.watch starts the task again if it was queued
browserSyncReload(k) ==
    /\ k \in reloading
    /\ reloading' = reloading \ {k}
    /\ dirty' = {}
    /\ watch' = [watch EXCEPT ![k] =
                   [@ EXCEPT !.running = watch[k].queued, !.queued = FALSE]]
    /\ UNCHANGED <<dPhase, served>>
    /\ DevFrame

\* the process is terminated
Terminate ==
    /\ dPhase # "idle"
    /\ dPhase' = "idle"
    /\ served' = FALSE
    /\ watch' = [k \in Kinds |-> NoWatcher]
    /\ reloading' = {}
    /\ dirty' = {}
    /\ DevFrame

DevStart ==
    /\ dPhase = "idle"
    /\ served = FALSE
    /\ watch = [k \in Kinds |-> NoWatcher]
    /\ reloading = {}
    /\ dirty = {}

DevIdle == DevStart

\* no test is run, for the specifications of the other subsystems
CheckIdle ==
    /\ suite = "none"
    /\ exists = FALSE
    /\ page = <<>>
    /\ verdict = <<>>
    /\ files = <<>>
    /\ cursor = 0

(***************************************************************************)
(* The convention checks: the markup as the tests' patterns see it.        *)
(***************************************************************************)
\* A tag is its name and its attributes in source order.  An attribute is
\* its name, split into a prefix ("data-" or none) and the rest, and its
\* quoted value, a sequence of pieces of text.
Attr(pre, name, val) == [pre |-> pre, name |-> name, val |-> val]
Tag(name, attrs) == [tag |-> name, attrs |-> attrs]

Range(s) == {s[i] : i \in DOMAIN s}
First(S) == CHOOSE i \in S : \A j \in S : i <= j
Last(S) == CHOOSE i \in S : \A j \in S : j <= i

\* The places in a tag where the text  name=["'] ... ["']  is found.  The
\* patterns of the tests are not anchored at the start of an attribute
\* name: the text is also found in an attribute whose name ends in `name`.
occurrences(t, name) == {i \in DOMAIN t.attrs : t.attrs[i].name = name}

\* the prefixes, among those the tests ask for, of a first piece of text
PrefixesOf(piece) ==
    CASE piece = "https://" -> {"http", "https://"}
      [] piece = "http://" -> {"http", "http://"}
      [] piece = "http" -> {"http"}
      [] piece = "//" -> {"//"}
      [] piece = "spacing-" -> {"spacing-"}
      [] OTHER -> {}

\* String.prototype.startsWith and endsWith, on pieces
startsWith(v, p) == Len(v) > 0 /\ p \in PrefixesOf(v[1])
endsWith(v, sfx) == Len(v) > 0 /\ v[Len(v)] = sfx

\* /<a[^>]*href=["']([^"']*)["'][^>]*>/gi: [^>]* is greedy, the group
\* captures the value after the last  href=  of the tag
hrefGroup(t) == t.attrs[Last(occurrences(t, "href"))].val

isExternalLink(t) ==
    /\ t.tag = "a"
    /\ occurrences(t, "href") # {}
    /\ startsWith(hrefGroup(t), "http://") \/ startsWith(hrefGroup(t), "https://")

\* extractExternalLinks(html), accessibility.test.js:19-39
extractExternalLinks(html) == SelectSeq(html, isExternalLink)

\* linkHasAttribute called without a value (value = null)
NoValue == <<>>

\* linkHasAttribute(linkTag, attribute, value), accessibility.test.js:42-51
linkHasAttribute(linkTag, attribute, value) ==
    IF value # NoValue
      THEN \E i \in occurrences(linkTag, attribute) : linkTag.attrs[i].val = value
      ELSE occurrences(linkTag, attribute) # {}

\* String.prototype.match without the g flag: the first occurrence
firstGroup(t, name) == t.attrs[First(occurrences(t, name))].val

\* expect(value).toMatch(/word/)
toMatch(val, word) == word \in Range(val)

\* test 'all external links have target="_blank"', lines 72-97
targetTest(ex, html) ==
    IF ~ex THEN "pass"
    ELSE LET externalLinks == extractExternalLinks(html) IN
         IF \A i \in DOMAIN externalLinks :
                linkHasAttribute(externalLinks[i], "target", <<"_blank">>)
           THEN "pass" ELSE "fail"

\* test 'all external links have rel="noopener noreferrer"', lines 99-133
relTest(ex, html) ==
    IF ~ex THEN "pass"
    ELSE LET externalLinks == extractExternalLinks(html) IN
         IF \A i \in DOMAIN externalLinks :
                /\ linkHasAttribute(externalLinks[i], "rel", NoValue)
                /\ toMatch(firstGroup(externalLinks[i], "rel"), "noopener")
                /\ toMatch(firstGroup(externalLinks[i], "rel"), "noreferrer")
           THEN "pass" ELSE "fail"

\* test 'external links have security attributes', lines 169-191
securityTest(ex, html) ==
    IF ~ex THEN "pass"
    ELSE LET externalLinks == extractExternalLinks(html) IN
         IF \A i \in DOMAIN externalLinks :
                /\ linkHasAttribute(externalLinks[i], "target", NoValue)
                /\ linkHasAttribute(externalLinks[i], "rel", NoValue)
                /\ toMatch(firstGroup(externalLinks[i], "rel"), "noopener")
           THEN "pass" ELSE "fail"

\* /<a[^>]*href=["']([^"']*\.html)["'][^>]*>/gi: the tags with a  href=
\* whose value ends in .html, and the value the group captures
htmlHrefs(t) == {i \in occurrences(t, "href") : endsWith(t.attrs[i].val, ".html")}
isHtmlLink(t) == t.tag = "a" /\ htmlHrefs(t) # {}

\* test 'internal links do not have target="_blank"', lines 193-218
internalTest(ex, html) ==
    IF ~ex THEN "pass"
    ELSE LET internal == SelectSeq(html, isHtmlLink) IN
         IF \A i \in DOMAIN internal :
                ~startsWith(internal[i].attrs[Last(htmlHrefs(internal[i]))].val, "http")
                  => ~linkHasAttribute(internal[i], "target", <<"_blank">>)
           THEN "pass" ELSE "fail"

\* ---- the pages the link tests are run on: anchors to an external address
\* in both schemes, to a page of the site, and to a page of the site whose
\* file name begins with the letters http; with target and rel, with
\* data-target and data-rel, or without
Anchors ==
    LET hrefs == {<<"https://", "a.org">>, <<"http://", "a.org">>,
                  <<"p", ".html">>, <<"http", "-faq", ".html">>}
        targets == {<<>>, <<Attr("", "target", <<"_blank">>)>>,
                    <<Attr("data-", "target", <<"_blank">>)>>}
        rels == {<<>>, <<Attr("", "rel", <<"noopener", "noreferrer">>)>>,
                 <<Attr("", "rel", <<"noopener">>)>>,
                 <<Attr("data-", "rel", <<"noopener", "noreferrer">>)>>}
    IN  {Tag("a", <<Attr("", "href", h)>> \o t \o r) :
            h \in hrefs, t \in targets, r \in rels}

\* the documents of at most n tags drawn from a set of tags
PagesOf(tags, n) == UNION {[1..k -> tags] : k \in 0..n}

\* ---- running the tests
\* the tests of a describe block, in the order jest runs them
TestsOf(s) ==
    CASE s = "links" -> <<"target", "rel", "security", "internal">>
      [] s = "headings" -> <<"structure">>
      [] s = "alt" -> <<"present", "nonEmpty", "descriptive", "decorative">>
      [] s = "resources" -> <<"count", "duplicates">>
      [] s = "publications" -> <<"fields", "links">>
      [] s = "styling" -> <<"spacing">>
      [] s = "lazy" -> <<"lazy">>
      [] s = "touch" -> <<"touch">>
      [] s = "contrast" -> <<"text", "primary", "link", "accent", "secondary",
                             "combinations">>
      [] s = "layout" -> <<"overflow", "again">>
      [] OTHER -> <<>>

\* jest runs the tests of a block one after the other, whatever their results
Due(s, t) ==
    /\ suite = s
    /\ verdict[t] = "none"
    /\ \A j \in DOMAIN TestsOf(s) :
         (\E k \in DOMAIN TestsOf(s) : k > j /\ TestsOf(s)[k] = t)
           => verdict[TestsOf(s)[j]] # "none"

Record(t, r) ==
    /\ verdict' = [verdict EXCEPT ![t] = r]
    /\ UNCHANGED <<suite, exists, page, files, cursor>>
    /\ CheckFrame

\* the runner starts describe block s on a file, present or not
CheckStart(s, pages) ==
    /\ suite = s
    /\ exists \in BOOLEAN
    /\ page \in (IF exists THEN pages ELSE {<<>>})
    /\ verdict = [t \in Range(TestsOf(s)) |-> "none"]
    /\ files = <<>>
    /\ cursor = 0

\* ---- the heading structure test
\* parseInt(match[1]) for /<h([1-6])[^>]*>/gi: the level of a heading tag,
\* 0 for a tag the pattern does not match
headingLevel(t) ==
    CASE t.tag = "h1" -> 1 [] t.tag = "h2" -> 2 [] t.tag = "h3" -> 3
      [] t.tag = "h4" -> 4 [] t.tag = "h5" -> 5 [] t.tag = "h6" -> 6
      [] OTHER -> 0

\* the array headings, lines 355-363
extractHeadings(html) ==
    LET tags == SelectSeq(html, LAMBDA t : headingLevel(t) > 0)
    IN  [i \in DOMAIN tags |-> headingLevel(tags[i])]

\* a check of adjacent headings that bounds the step in both directions
stepAllowed_bothWays(diff) == diff <= 1 /\ -diff <= 1

\* lines 369-374: if (diff > 0) expect(diff).toBeLessThanOrEqual(1)
stepAllowed(diff) == diff > 0 => diff <= 1

\* test 'sections have proper heading structure', lines 344-376
headingTest(ex, html) ==
    IF ~ex THEN "pass"
    ELSE LET headings == extractHeadings(html) IN
         IF /\ Cardinality({i \in DOMAIN headings : headings[i] = 1}) >= 1
            /\ \A i \in 2..Len(headings) :
                 stepAllowed(headings[i] - headings[i - 1])
           THEN "pass" ELSE "fail"

\* ---- the tags the heading test is run on
Headings ==
    {Tag(n, <<>>) : n \in {"h1", "h2", "h3", "h4", "h5", "h6", "header"}}

\* ---- the alt text tests ('Property 12: Image alt text presence')
\* String.prototype.trim, on a value given character by character
RECURSIVE trimStart(_)
trimStart(v) == IF v # <<>> /\ Head(v) = " " THEN trimStart(Tail(v)) ELSE v

RECURSIVE trimEnd(_)
trimEnd(v) ==
    IF v # <<>> /\ v[Len(v)] = " " THEN trimEnd(SubSeq(v, 1, Len(v) - 1)) ELSE v

trim(v) == trimEnd(trimStart(v))

\* String.prototype.toLowerCase, for the letters the pages use
toLowerCase(v) ==
    [i \in DOMAIN v |->
       CASE v[i] = "I" -> "i" [] v[i] = "M" -> "m" [] v[i] = "G" -> "g"
         [] OTHER -> v[i]]

\* genericTerms, line 855
genericTerms ==
    {<<"i", "m", "a", "g", "e">>, <<"p", "h", "o", "t", "o">>,
     <<"p", "i", "c", "t", "u", "r", "e">>, <<"i", "m", "g">>}

\* /<img[^>]*>/gi
extractImgs(html) == SelectSeq(html, LAMBDA t : t.tag = "img")

\* test 'all images have alt attributes', lines 766-795:
\* expect(imgTag).toMatch(/alt=["'][^"']*["']/)
altPresentTest(ex, html) ==
    IF ~ex THEN "pass"
    ELSE LET imgs == extractImgs(html) IN
         IF \A i \in DOMAIN imgs : occurrences(imgs[i], "alt") # {}
           THEN "pass" ELSE "fail"

\* test 'all images have non-empty alt text', lines 797-828; without a match
\* the test calls fail(...), which ends it as failed
altNonEmptyTest(ex, html) ==
    IF ~ex THEN "pass"
    ELSE LET imgs == extractImgs(html) IN
         IF \A i \in DOMAIN imgs :
                /\ occurrences(imgs[i], "alt") # {}
                /\ Len(trim(firstGroup(imgs[i], "alt"))) > 0
           THEN "pass" ELSE "fail"

\* line 852: expect(altText.length).toBeGreaterThanOrEqual(3)
MinAltLength == 3

\* test 'alt text is descriptive', lines 830-867
altDescriptiveTest(ex, html) ==
    IF ~ex THEN "pass"
    ELSE LET imgs == extractImgs(html) IN
         IF \A i \in DOMAIN imgs :
                occurrences(imgs[i], "alt") # {}
                  => LET altText == trim(firstGroup(imgs[i], "alt")) IN
                     /\ Len(altText) >= MinAltLength
                     /\ toLowerCase(altText) \notin genericTerms
           THEN "pass" ELSE "fail"

\* isDecorative, lines 920-921
isDecorative(imgTag) ==
    \/ linkHasAttribute(imgTag, "role", <<"presentation">>)
    \/ linkHasAttribute(imgTag, "aria-hidden", <<"true">>)

\* test 'decorative images can have empty alt', lines 903-935: for a
\* decorative image with an alt, expect(altMatch[1]).toBeDefined()
decorativeTest(ex, html) ==
    IF ~ex THEN "pass"
    ELSE LET imgs == extractImgs(html) IN
         IF \A i \in DOMAIN imgs :
                (isDecorative(imgs[i]) /\ occurrences(imgs[i], "alt") # {})
                  => firstGroup(imgs[i], "alt") \in Seq(STRING)
           THEN "pass" ELSE "fail"

\* ---- the pages the alt text tests are run on: images without alt, with
\* an alt text, with a data-alt (and an empty alt after it); marked
\* decorative or not
Images ==
    LET good == <<"l", "o", "g", "o">>
        texts == {<<>>, <<" ">>, <<"a", "b">>, <<" ", "a", "b", " ">>,
                  <<"i", "m", "g">>, <<"I", "M", "G">>, <<" ", "i", "m", "g">>, good}
        alts == {<<>>, <<Attr("data-", "alt", good)>>,
                 <<Attr("data-", "alt", good), Attr("", "alt", <<>>)>>}
                  \cup {<<Attr("", "alt", v)>> : v \in texts}
        marks == {<<>>, <<Attr("", "role", <<"presentation">>)>>,
                  <<Attr("", "aria-hidden", <<"true">>)>>}
    IN  {Tag("img", a \o d) : a \in alts, d \in marks}

\* ---- the resource tests ('Property 8: Resource optimization')
\* the values that the group of  <tag[^>]*attr=["'](scheme[^"']+)["'][^>]*>
\* captures in a document, in document order
schemeValues(t, attr, schemes) ==
    {i \in occurrences(t, attr) : \E p \in schemes : startsWith(t.attrs[i].val, p)}

captures(html, tag, attr, schemes) ==
    LET found == SelectSeq(html,
                   LAMBDA t : t.tag = tag /\ schemeValues(t, attr, schemes) # {})
    IN  [i \in DOMAIN found |->
           found[i].attrs[Last(schemeValues(found[i], attr, schemes))].val]

\* 'https:' + match[1], line 36, for a value that starts with //
prependHttps(v) == <<"https://">> \o Tail(v)

\* extractExternalResources(html), performance.test.js:11-40
extractExternalResources(html) ==
    LET absolute == {"http://", "https://"}
        relative == captures(html, "img", "src", {"//"})
    IN  captures(html, "link", "href", absolute)
          \o captures(html, "script", "src", absolute)
          \o captures(html, "img", "src", absolute)
          \o [i \in DOMAIN relative |-> prependHttps(relative[i])]

\* line 96: expect(uniqueResources.length).toBeLessThanOrEqual(15)
RequestLimit == 15

\* test 'external HTTP requests should not exceed 15 per page', lines 70-102
countTest(ex, html) ==
    IF ~ex THEN "pass"
    ELSE IF Cardinality(Range(extractExternalResources(html))) <= RequestLimit
           THEN "pass" ELSE "fail"

\* resourceCounts, lines 117-120
resourceCounts(resources) ==
    [url \in Range(resources) |->
       Cardinality({i \in DOMAIN resources : resources[i] = url})]

\* a filter that lets a URL be loaded twice
isDuplicate_thrice(count) == count > 2

\* line 124: .filter(([url, count]) => count > 1)
isDuplicate(count) == count > 1

\* test 'pages should minimize duplicate external resources', lines 104-135
duplicatesTest(ex, html) ==
    IF ~ex THEN "pass"
    ELSE LET counts == resourceCounts(extractExternalResources(html))
             duplicates == {url \in DOMAIN counts : isDuplicate(counts[url])}
         IN  IF Cardinality(duplicates) = 0 THEN "pass" ELSE "fail"

\* ---- the pages the resource tests are run on: n references to n
\* resources under one scheme (absolute or protocol-relative), stylesheets,
\* scripts and images taking turns, followed by d further references to the
\* first resource, under any scheme or as a file of the site
ResourcePages ==
    LET kinds == <<"link", "script", "img">>
        Ref(k, scheme, id) ==
            LET kind == kinds[(k % Len(kinds)) + 1]
            IN  Tag(kind, <<Attr("", IF kind = "link" THEN "href" ELSE "src",
                                 <<scheme, ToString(id)>>)>>)
    IN  {[i \in 1..n |-> Ref(i + k, s, i)] \o [j \in 1..d |-> Ref(1 + k, s2, 1)] :
            n \in 0..MaxResources, s \in {"https://", "//"},
            k \in 0..(Len(kinds) - 1), d \in 0..MaxRepeats,
            s2 \in {"https://", "http://", "//", "css/"}}

\* ---- the publication tests ('Property 3: Publication structure
\* completeness', publications.test.js); an element inside a publication
\* entry is a tag with the text it encloses
\* extractPublicationEntries(html), lines 11-21: match[1] of every article
\* whose class holds publication-entry
extractPublicationEntries(html) ==
    LET found == SelectSeq(html,
                   LAMBDA t : /\ t.tag = "article"
                              /\ \E i \in occurrences(t, "class") :
                                   "publication-entry" \in Range(t.attrs[i].val))
    IN  [i \in DOMAIN found |-> found[i].body]

\* htmlContains(html, 'name="value"'), lines 24-29: html.includes
htmlContains(html, name, value) ==
    \E i \in DOMAIN html : linkHasAttribute(html[i], name, value)

\* extractTextContent(html, className), lines 32-36: the trimmed text of the
\* first element whose class holds className, the empty text (for null)
\* without one; both are falsy
textContent(html, className) ==
    LET found == SelectSeq(html,
                   LAMBDA t : \E i \in occurrences(t, "class") :
                                 className \in Range(t.attrs[i].val))
    IN  IF found = <<>> THEN <<>> ELSE trim(found[1].text)

\* /\b(19|20)\d{2}\b/ on the words of a text
isYear(word) == word \in {"1999", "2020"}

\* the property of lines 62-98, for one entry
entryHasFields(entry) ==
    /\ htmlContains(entry, "class", <<"publication-authors">>)
    /\ htmlContains(entry, "class", <<"publication-title">>)
    /\ htmlContains(entry, "class", <<"publication-venue">>)
    /\ Len(textContent(entry, "publication-authors")) > 0
    /\ Len(textContent(entry, "publication-title")) > 0
    /\ Len(textContent(entry, "publication-venue")) > 0
    /\ \E w \in Range(textContent(entry, "publication-venue")) : isYear(w)

\* the entries that the runs of fc.constantFrom(...entries) draw
Samples(html) ==
    {S \in SUBSET DOMAIN extractPublicationEntries(html) :
        S # {} \/ extractPublicationEntries(html) = <<>>}

\* test 'all publication entries have required fields', lines 49-103
fieldsTest(ex, html, sample) ==
    IF ~ex THEN "throw"
    ELSE LET entries == extractPublicationEntries(html) IN
         IF Len(entries) > 0 /\ \A i \in sample : entryHasFields(entries[i])
           THEN "pass" ELSE "fail"

\* test 'all external links have proper security attributes', lines
\* 223-248: readFileSync throws for a missing file, fc.constantFrom() for
\* no entry; found are the matches of /<a[^>]*href="http[^"]*"[^>]*>/gi
publicationLinksTest(ex, html, sample) ==
    IF ~ex THEN "throw"
    ELSE LET entries == extractPublicationEntries(html) IN
         IF Len(entries) = 0 THEN "throw"
         ELSE IF \A i \in sample :
                   LET found == SelectSeq(entries[i],
                                  LAMBDA t : /\ t.tag = "a"
                                             /\ \E k \in occurrences(t, "href") :
                                                  startsWith(t.attrs[k].val, "http"))
                   IN
                   \A j \in DOMAIN found :
                      /\ linkHasAttribute(found[j], "target", <<"_blank">>)
                      /\ linkHasAttribute(found[j], "rel", <<"noopener", "noreferrer">>)
                THEN "pass" ELSE "fail"

\* ---- the pages the publication tests are run on: entries with or without
\* authors, title and venue (with a year or not), and complete entries with
\* a link
Entries ==
    LET El(cls, text) ==
            [tag |-> "div", attrs |-> <<Attr("", "class", <<cls>>)>>, text |-> text]
        Entry(body) ==
            [tag |-> "article",
             attrs |-> <<Attr("", "class", <<"publication-entry">>)>>, body |-> body]
        authors == {<<>>, <<El("publication-authors", <<" ">>)>>,
                    <<El("publication-authors", <<"T.", "Le">>)>>}
        titles == {<<>>, <<El("publication-title", <<"A", "paper">>)>>}
        venues == {<<>>, <<El("publication-venue", <<"NeurIPS">>)>>,
                   <<El("publication-venue", <<"NeurIPS", "2020">>)>>}
        anchors ==
            {<<[tag |-> "a", text |-> <<"pdf">>,
                attrs |-> <<Attr("", "href", <<"https://", "a.org">>)>> \o t \o r]>> :
                t \in {<<Attr("", "target", <<"_blank">>)>>,
                       <<Attr("data-", "target", <<"_blank">>)>>},
                r \in {<<>>, <<Attr("", "rel", <<"noopener", "noreferrer">>)>>}}
    IN  {Entry(a \o t \o v) : a \in authors, t \in titles, v \in venues}
          \cup {Entry(<<El("publication-authors", <<"T.", "Le">>),
                        El("publication-title", <<"A", "paper">>),
                        El("publication-venue", <<"NeurIPS", "2020">>)>> \o l) :
                  l \in anchors}

\* ---- the spacing test of styling.test.js, run on css/variables.css;
\* a stylesheet is the sequence of its declarations  --name: value;
\* extractCSSVariables(cssContent), lines 42-53: the object from the names
\* to the values; of two declarations of a name the later one stays
extractCSSVariables(cssContent) ==
    [n \in {cssContent[i].name : i \in DOMAIN cssContent} |->
       trim(cssContent[Last({i \in DOMAIN cssContent : cssContent[i].name = n})].value)]

\* value.match(/^([\d.]+)/), line 220
startsWithNumber(value) ==
    Len(value) > 0 /\ value[1] \in {ToString(i) : i \in 0..9}

\* test 'CSS custom properties are used for spacing consistency', lines
\* 202-226
spacingTest(ex, cssContent) ==
    IF ~ex THEN "throw"
    ELSE LET variables == extractCSSVariables(cssContent)
             spacingVars == {key \in DOMAIN variables : startsWith(key, "spacing-")}
             spacingValues == {key \in spacingVars : startsWithNumber(variables[key])}
         IN  IF Cardinality(spacingVars) > 0 /\ Cardinality(spacingValues) > 3
               THEN "pass" ELSE "fail"

\* ---- the stylesheets the spacing test is run on: n spacing variables
\* with a length for value, then one further declaration or none
VariablePages ==
    LET Decl(name, value) == [name |-> name, value |-> value]
        others == {<<>>, <<Decl(<<"spacing-", "auto">>, <<"auto">>)>>,
                   <<Decl(<<"color-", "primary">>, <<"#fff">>)>>,
                   <<Decl(<<"spacing-", "1">>, <<" ", "auto">>)>>}
    IN  {[i \in 1..n |-> Decl(<<"spacing-", ToString(i)>>, <<ToString(i), "rem">>)] \o d :
            n \in 0..MaxSpacing, d \in others}

\* ---- the lazy loading test of performance.test.js, lines 266-309, for
\* one file of htmlFiles
\* html.indexOf(imgTag): where the text of the tag occurs first
indexOf(html, tag) == First({j \in DOMAIN html : html[j] = tag})

\* test 'below-fold images should use lazy loading'
lazyTest(ex, html) ==
    IF ~ex THEN "pass"
    ELSE LET images == {i \in DOMAIN html : html[i].tag = "img"}
             beforeImg(i) == 1..(indexOf(html, html[i]) - 1)
             containers(i) ==
                 {j \in beforeImg(i) :
                    /\ html[j].tag = "div" /\ html[j].attrs # <<>>
                    /\ html[j].attrs[1].pre = "" /\ html[j].attrs[1].name = "class"
                    /\ Len(html[j].attrs[1].val) > 0
                    /\ html[j].attrs[1].val[1] = "container"}
             isLikelyBelowFold(i) ==
                 \/ \E j \in beforeImg(i) : html[j].tag = "section"
                 \/ Cardinality(containers(i)) >= 2
             hasLazyLoading(i) ==
                 \E k \in occurrences(html[i], "loading") :
                    html[i].attrs[k].val = <<"lazy">>
         IN  IF \A i \in images :
                  (i # First(images) /\ isLikelyBelowFold(i)) => hasLazyLoading(i)
               THEN "pass" ELSE "fail"

\* ---- the tags of the pages the lazy loading test is run on: a section,
\* a container, and two images with loading="lazy", with data-loading="lazy"
\* or without
LazyTags ==
    {Tag("section", <<>>), Tag("div", <<Attr("", "class", <<"container">>)>>)}
      \cup {Tag("img", <<Attr("", "src", <<src>>)>> \o l) :
               src \in {"a.png", "b.png"},
               l \in {<<>>, <<Attr("", "loading", <<"lazy">>)>>,
                      <<Attr("data-", "loading", <<"lazy">>)>>}}

\* ---- the touch target test of accessibility.test.js, lines 957-993, run
\* on index.html and css/components.css; a stylesheet is the sequence of its
\* rule blocks, a length the digits before its unit
\* parseInt(match[1]) for a match of (\d+)
parseInt(digits) ==
    LET value[i \in 0..Len(digits)] ==
          IF i = 0 THEN 0 ELSE 10 * value[i - 1] + digits[i]
    IN  value[Len(digits)]

\* expect(minHeight).toBeGreaterThanOrEqual(44), line 989
MinTouchTarget == 44

\* test 'social links have minimum touch target size': ex says that both
\* files exist
touchTest(ex, sheet) ==
    IF ~ex THEN "pass"
    ELSE LET socialLinkMatch ==
                 SelectSeq(sheet, LAMBDA b : b.selector = ".social-link")
         IN  IF socialLinkMatch = <<>> THEN "pass"
             ELSE LET minHeightMatch ==
                          SelectSeq(socialLinkMatch[1].decls,
                                    LAMBDA d : d.name = "min-height" /\ d.unit = "px")
                  IN  IF minHeightMatch = <<>> THEN "pass"
                      ELSE IF parseInt(minHeightMatch[1].digits) >= MinTouchTarget
                             THEN "pass" ELSE "fail"

\* ---- the rule blocks of the stylesheets the touch target test is run on:
\* for .social-link or another selector; without a min-height, with one of
\* 43px, 44px or 3rem, or with one of 3rem and then one of 43px
TouchRules ==
    LET Decl(name, digits, unit) == [name |-> name, digits |-> digits, unit |-> unit]
        small == Decl("min-height", <<4, 3>>, "px")
        relative == Decl("min-height", <<3>>, "rem")
        decls == {<<>>, <<Decl("width", <<4, 8>>, "px")>>, <<small>>,
                  <<Decl("min-height", <<4, 4>>, "px")>>, <<relative>>,
                  <<relative, small>>}
    IN  {[selector |-> sel, decls |-> d] :
            sel \in {".social-link", ".nav-link"}, d \in decls}

\* ---- the contrast tests ('Property 11: Color contrast compliance',
\* accessibility.test.js:548-745), run on css/variables.css; a stylesheet is
\* the sequence of its declarations  name: #digits;  and a luminance is
\* held in hundred-thousandths (TLC's integers have 32 bits)
\* hexToRgb(hex), lines 550-557, for the six digits that the patterns of the
\* tests capture: parseInt(.., 16) of each pair of digits
hexToRgb(hex) ==
    LET digit(c) ==
          CASE c = "0" -> 0 [] c = "1" -> 1 [] c = "4" -> 4 [] c = "5" -> 5
            [] c = "6" -> 6 [] c = "7" -> 7 [] c = "9" -> 9
            [] c \in {"a", "A"} -> 10 [] c \in {"c", "C"} -> 12
            [] c \in {"f", "F"} -> 15
    IN  [k \in 1..3 |-> 16 * digit(hex[2 * k - 1]) + digit(hex[2 * k])]

\* getLuminance(r, g, b), lines 560-566; Math.pow((c + 0.055) / 1.055, 2.4)
\* is tabulated for the channel values of the colours used here
getLuminance(rgb) ==
    LET pow(c) ==
          CASE c = 26 -> 1033 [] c = 102 -> 13287 [] c = 118 -> 18116
            [] c = 119 -> 18447 [] c = 148 -> 29614 [] c = 149 -> 30054
            [] c = 204 -> 60383 [] c = 255 -> 100000
        linear(c) ==
          IF c * 100000 <= 3928 * 255
            THEN (c * 10000000) \div (255 * 1292)
            ELSE pow(c)
    IN  (2126 * linear(rgb[1]) + 7152 * linear(rgb[2]) + 722 * linear(rgb[3]))
          \div 10000

\* the ratio computed from the two luminances in the order they are given
getContrastRatio_inOrder(color1, color2) ==
    [num |-> getLuminance(color1) + 5000, den |-> getLuminance(color2) + 5000]

\* getContrastRatio(color1, color2), lines 569-574: the quotient, as its
\* numerator and its denominator
getContrastRatio(color1, color2) ==
    LET lum1 == getLuminance(color1)
        lum2 == getLuminance(color2)
        lighter == IF lum1 >= lum2 THEN lum1 ELSE lum2
        darker == IF lum1 >= lum2 THEN lum2 ELSE lum1
    IN  [num |-> lighter + 5000, den |-> darker + 5000]

\* the five tests of lines 576-702, each on one pair, and the test 'all
\* defined color combinations meet minimum contrast', lines 704-744, on the
\* four pairs of its fc.constantFrom; minRatio is held in tenths, and bg
\* "white" stands for the constant { r: 255, g: 255, b: 255 }
contrastTest(ex, sheet, t) ==
    LET Pair(text, bg, minRatio) == [text |-> text, bg |-> bg, minRatio |-> minRatio]
        pairs ==
          CASE t = "text" -> {Pair("--color-text", "--color-background", 45)}
            [] t = "primary" -> {Pair("--color-primary", "white", 30)}
            [] t = "link" -> {Pair("--color-link", "--color-background", 45)}
            [] t = "accent" -> {Pair("--color-accent", "white", 30)}
            [] t = "secondary" -> {Pair("--color-secondary", "--color-background", 30)}
            [] t = "combinations" ->
                 {Pair("--color-text", "--color-background", 45),
                  Pair("--color-link", "--color-background", 45),
                  Pair("--color-primary", "--color-white", 30),
                  Pair("--color-accent", "--color-white", 30)}
        \* css.match(/name:\s*#([a-f\d]{6})/i): the colour of the first
        \* declaration of the name with six digits, <<>> for null
        match(name) ==
          LET found == SelectSeq(sheet, LAMBDA d : d.name = name /\ Len(d.value) >= 6)
          IN  IF name = "white" THEN <<255, 255, 255>>
              ELSE IF found = <<>> THEN <<>>
              ELSE hexToRgb(SubSeq(found[1].value, 1, 6))
        meets(p) ==
          (match(p.text) # <<>> /\ match(p.bg) # <<>>)
            => LET ratio == getContrastRatio(match(p.text), match(p.bg))
               IN  ratio.num * 10 >= p.minRatio * ratio.den
    IN  IF ~ex THEN "pass"
        ELSE IF \A p \in pairs : meets(p) THEN "pass" ELSE "fail"

\* ---- the stylesheets the contrast tests are run on: one of the five
\* colours of the pairs, the background and white, each declared with six
\* digits, with three, or not at all
ColorSheets ==
    LET Decl(name, value) == <<[name |-> name, value |-> value]>>
        Hex(a, b, c, d, e, f) == <<a, b, c, d, e, f>>
        white == Hex("f", "f", "f", "f", "f", "f")
        black == Hex("0", "0", "0", "0", "0", "0")
        short == <<"f", "f", "f">>
        colours == {white, Hex("F", "F", "F", "F", "F", "F"), black, short,
                    Hex("0", "a", "0", "a", "0", "a"), Hex("1", "a", "1", "a", "1", "a"),
                    Hex("7", "6", "7", "6", "7", "6"), Hex("7", "7", "7", "7", "7", "7"),
                    Hex("9", "4", "9", "4", "9", "4"), Hex("9", "5", "9", "5", "9", "5"),
                    Hex("0", "0", "6", "6", "c", "c")}
        names == {"--color-text", "--color-primary", "--color-link",
                  "--color-accent", "--color-secondary"}
        backgrounds == {<<>>, Decl("--color-background", white),
                        Decl("--color-background", black),
                        Decl("--color-background", short)
                          \o Decl("--color-background", black)}
        whites == {<<>>, Decl("--color-white", white)}
    IN  {Decl(n, c) \o b \o w :
            n \in names, c \in colours, b \in backgrounds, w \in whites}

\* ---- the overflow test of layout.test.js, lines 53-99, for one file of
\* htmlFiles; the style attribute of a tag is kept in a field of its own,
\* as the declarations  name: digits unit  it holds (none without one)
\* test 'no content should overflow viewport boundaries': sample holds the
\* viewport widths drawn together with the file
overflowTest(ex, html, sample) ==
    LET hasContainer ==
          \E i \in DOMAIN html : \E k \in occurrences(html[i], "class") :
             Len(html[i].attrs[k].val) > 0 /\ html[i].attrs[k].val[1] = "container"
        \* extractStyle(html, '\\w+'), lines 25-33
        styles == {html[i].style : i \in {j \in DOMAIN html : html[j].style # <<>>}}
        includes(style, name, digits, unit) ==
          \E k \in DOMAIN style :
             /\ style[k].name = name
             /\ digits # <<>> => (style[k].digits = digits /\ style[k].unit = unit)
        overflows(style, viewportWidth) ==
          LET widthMatch ==
                SelectSeq(style, LAMBDA d : d.name \in {"width", "max-width"}
                                             /\ d.unit = "px")
          IN  /\ widthMatch # <<>>
              /\ parseInt(widthMatch[1].digits) > 320
              /\ ~includes(style, "max-width", <<>>, "")
              /\ ~includes(style, "width", <<1, 0, 0>>, "%")
              /\ parseInt(widthMatch[1].digits) > viewportWidth
    IN  IF ~ex THEN "pass"
        ELSE IF ~hasContainer THEN "fail"
        ELSE IF \E viewportWidth \in sample : \E style \in styles :
                  overflows(style, viewportWidth)
               THEN "fail" ELSE "pass"

\* ---- the pages the overflow test is run on: with a container or not, and
\* elements with a width of 300, 321, 500 or 3000 px in their style, alone
\* or next to a max-width or a width of 100%
StyledPages ==
    LET Decl(name, digits, unit) == [name |-> name, digits |-> digits, unit |-> unit]
        wide == Decl("width", <<5, 0, 0>>, "px")
        stylings == {<<Decl("width", <<3, 0, 0>>, "px")>>,
                     <<Decl("width", <<3, 2, 1>>, "px")>>, <<wide>>,
                     <<Decl("width", <<3, 0, 0, 0>>, "px")>>,
                     <<wide, Decl("max-width", <<1, 0, 0>>, "%")>>,
                     <<Decl("width", <<1, 0, 0>>, "%"), wide>>}
        Styled(name, attrs, style) == [tag |-> name, attrs |-> attrs, style |-> style]
        containers ==
          {<<>>, <<Styled("div", <<Attr("", "class", <<"container">>)>>, <<>>)>>}
    IN  {c \o e : c \in containers,
                  e \in PagesOf({Styled("img", <<>>, st) : st \in stylings}, MaxStyles)}

(***************************************************************************)
(* The specifications.                                                     *)
(***************************************************************************)
InitNav == NavStart /\ VendorIdle /\ CssIdle /\ DevIdle /\ CheckIdle

NextNav ==
    \/ EvalScript
    \/ ParseDone
    \/ DOMContentLoaded
    \/ Load
    \/ \E l \in LinkIds : Click(l)
    \/ \E y \in ScrollOffsets : Scroll(y)
    \/ ScrollEvent
    \/ ToggleMenu
    \/ \E l \in LinkIds, k \in Links : AddLink(l, k)

SpecNav == InitNav /\ [][NextNav]_vars

\* the document before the script is evaluated, for the specifications of the
\* other subsystems
NavIdle ==
    /\ readyState = "loading"
    /\ scriptRun = FALSE
    /\ dclListeners = 0
    /\ dclFired = FALSE
    /\ initCalls = 0
    /\ hasNavbar = TRUE
    /\ hasCollapse = TRUE
    /\ scrolled = FALSE
    /\ scrollY = 0
    /\ scrollPending = FALSE
    /\ scrollListeners = 0
    /\ links = [l \in LinkIds |-> NoLink]
    /\ smoothL = [l \in LinkIds |-> 0]
    /\ closeL = [l \in LinkIds |-> 0]
    /\ show = FALSE
    /\ instance = FALSE
    /\ atInit = {}
    /\ last = [op |-> "start", link |-> 0,
               prevented |-> FALSE, reqs |-> <<>>, hides |-> 0]

InitVendor == NavIdle /\ VendorStart /\ CssIdle /\ DevIdle /\ CheckIdle

NextVendor ==
    \/ \E t \in VendorTasks : StartTask(t)
    \/ cleanVendor
    \/ vendorSrc
    \/ \E f \in DistFiles : vendorDest(f)
    \/ vendorEnd
    \/ NpmUpdate

SpecVendor == InitVendor /\ [][NextVendor]_vars

InitCss == NavIdle /\ VendorIdle /\ CssStart /\ DevIdle /\ CheckIdle

NextCss ==
    \/ StartCss
    \/ minifySrc
    \/ \E n \in CssFiles : minifyDest(n)
    \/ minifyEnd

SpecCss == InitCss /\ [][NextCss]_vars

InitDev == NavIdle /\ VendorIdle /\ CssIdle /\ DevStart /\ CheckIdle

NextDev ==
    \/ StartDev
    \/ browserSyncServe
    \/ watchFilesCall
    \/ \E k \in Kinds : FileChange(k)
    \/ \E k \in Kinds : TimerFire(k)
    \/ \E k \in Kinds : ReloadBegin(k)
    \/ \E k \in Kinds : browserSyncReload(k)
    \/ Terminate

SpecDev == InitDev /\ [][NextDev]_vars

\* The event loop of the gulp process runs every callback that is due: the
\* next function of a series, an expired timer, a started task.  Nothing
\* obliges a file to change, gulp to be started or the process to be ended.
FairSpecDev ==
    /\ SpecDev
    /\ WF_vars(browserSyncServe)
    /\ WF_vars(watchFilesCall)
    /\ \A k \in Kinds :
         /\ WF_vars(TimerFire(k))
         /\ WF_vars(ReloadBegin(k))
         /\ WF_vars(browserSyncReload(k))

\* the describe blocks that are modelled
Suites == {"links", "headings", "alt", "resources", "publications",
           "styling", "lazy", "touch", "contrast", "layout"}

SuitePages(s) ==
    CASE s = "links" -> PagesOf(Anchors, MaxAnchors)
      [] s = "headings" -> PagesOf(Headings, MaxHeadings)
      [] s = "alt" -> PagesOf(Images, MaxImages)
      [] s = "resources" -> ResourcePages
      [] s = "publications" -> PagesOf(Entries, MaxEntries)
      [] s = "styling" -> VariablePages
      [] s = "lazy" -> PagesOf(LazyTags, MaxTags)
      [] s = "touch" -> PagesOf(TouchRules, MaxRules)
      [] s = "contrast" -> ColorSheets
      [] s = "layout" -> StyledPages

\* the result of test t for a file, given the entries that fast-check draws
TestResult(t, ex, html, sample) ==
    CASE t = "target" -> targetTest(ex, html)
      [] t = "rel" -> relTest(ex, html)
      [] t = "security" -> securityTest(ex, html)
      [] t = "internal" -> internalTest(ex, html)
      [] t = "structure" -> headingTest(ex, html)
      [] t = "present" -> altPresentTest(ex, html)
      [] t = "nonEmpty" -> altNonEmptyTest(ex, html)
      [] t = "descriptive" -> altDescriptiveTest(ex, html)
      [] t = "decorative" -> decorativeTest(ex, html)
      [] t = "count" -> countTest(ex, html)
      [] t = "duplicates" -> duplicatesTest(ex, html)
      [] t = "fields" -> fieldsTest(ex, html, sample)
      [] t = "links" -> publicationLinksTest(ex, html, sample)
      [] t = "spacing" -> spacingTest(ex, html)
      [] t = "lazy" -> lazyTest(ex, html)
      [] t = "touch" -> touchTest(ex, html)
      [] t \in Range(TestsOf("contrast")) -> contrastTest(ex, html, t)
      [] t \in {"overflow", "again"} -> overflowTest(ex, html, sample)

\* jest calls the function of test t of the describe block; fast-check
\* draws the entries of the publications page, and the viewport widths of
\* fc.integer({ min: 320, max: 2560 }) (layout.test.js:56), afresh in each
\* run; "again" is the overflow test in a second run of jest
runTest(s, t) ==
    /\ Due(s, t)
    /\ \E sample \in (CASE s = "publications" -> Samples(page)
                        [] s = "layout" -> (SUBSET {320, 400, 2560}) \ {{}}
                        [] OTHER -> {{}}) :
         Record(t, TestResult(t, exists, page, sample))

\* ---- the tests that go through the page documents with forEach
\* (accessibility.test.js:193-218, performance.test.js:104-135)
\* the files such a test is run on, present or missing
FilesOf(t) ==
    LET pages ==
          IF t = "internal"
            THEN {p \in PagesOf(Anchors, 1) : \A i \in DOMAIN p : isHtmlLink(p[i])}
            ELSE {p \in ResourcePages :
                    /\ Len(p) <= 2
                    /\ \A i \in DOMAIN p :
                         p[i].tag = "img" /\ startsWith(p[i].attrs[1].val, "https://")}
    IN  {[exists |-> TRUE, html |-> p] : p \in pages}
          \cup {[exists |-> FALSE, html |-> <<>>]}

\* jest calls the function of the one test t, with htmlFiles the given files
EachStart(t, lists) ==
    /\ suite = "forEach"
    /\ exists = FALSE
    /\ page = <<>>
    /\ verdict = [x \in {t} |-> "none"]
    /\ files \in lists
    /\ cursor = 0

\* htmlFiles.forEach calls its callback on the next file: the callback
\* returns, or an expect in it throws, which ends forEach and the test; the
\* test passes when forEach has returned
forEachFile(t) ==
    /\ suite = "forEach"
    /\ t \in DOMAIN verdict
    /\ verdict[t] = "none"
    /\ cursor < Len(files)
    /\ cursor' = cursor + 1
    /\ LET file == files[cursor + 1]
           r == TestResult(t, file.exists, file.html, {})
       IN  verdict' = [verdict EXCEPT ![t] =
                         IF r = "fail" THEN "fail"
                         ELSE IF cursor + 1 = Len(files) THEN "pass" ELSE "none"]
    /\ UNCHANGED <<suite, exists, page, files>>
    /\ CheckFrame

InitCheck ==
    /\ NavIdle /\ VendorIdle /\ CssIdle /\ DevIdle
    /\ \/ \E s \in Suites : CheckStart(s, SuitePages(s))
       \/ \E t \in {"internal", "duplicates"} :
            EachStart(t, PagesOf(FilesOf(t), MaxFiles) \ {<<>>})

NextCheck ==
    \/ \E s \in Suites : \E t \in Range(TestsOf(s)) : runTest(s, t)
    \/ \E t \in {"internal", "duplicates"} : forEachFile(t)

SpecCheck == InitCheck /\ [][NextCheck]_vars

(***************************************************************************)
(* Claims about the navigation behaviours, checked under SpecNav.          *)
(***************************************************************************)
\* the anchor the last click was on
Clicked == links[last.link]

\* C1: with a .navbar element, right after the initialisation and right after
\* every scroll event the listener handled, the navbar carries the scrolled
\* class exactly when the scroll offset is strictly greater than 50.
C1_ScrolledIffPastThreshold ==
    (hasNavbar /\ (last.op = "init" \/ (last.op = "scroll" /\ initCalls > 0)))
        => (scrolled <=> scrollY > 50)

\* a handled scroll event at offset exactly 50: the class is absent
C1_Witness ==
    /\ hasNavbar /\ last.op = "scroll" /\ initCalls > 0
    /\ scrollY = 50 /\ ~scrolled

\* C2: a click on an anchor present at initialisation whose href names the
\* existing element prevents the default action and requests exactly one
\* scroll, to the element's offsetTop minus the navbar's height at the click
\* (0 without a navbar).
C2_SmoothScrollToTarget ==
    [][\A l \in LinkIds :
         (last'.op = "click" /\ last'.link = l /\ l \in atInit
            /\ links[l].href = "#a")
         => /\ last'.prevented
            /\ last'.reqs =
                 <<TargetTop - (IF hasNavbar
                                  THEN CollapsedHeight
                                       + (IF hasCollapse /\ show THEN MenuHeight ELSE 0)
                                  ELSE 0)>>]_vars

\* such a click with a navbar whose menu is collapsed
C2_Witness ==
    /\ last.op = "click" /\ last.link \in atInit /\ Clicked.href = "#a"
    /\ hasNavbar /\ last.prevented
    /\ last.reqs = <<TargetTop - CollapsedHeight>>

\* C3: a click on an anchor whose href is the bare "#" or names no existing
\* element neither prevents the default action nor requests a scroll.
C3_NoInterceptWithoutTarget ==
    (last.op = "click" /\ Clicked.href \in {"#", "#b"})
        => (~last.prevented /\ last.reqs = <<>>)

\* such a click on an anchor that has the listener and whose href names no
\* element
C3_Witness ==
    /\ last.op = "click" /\ last.link \in atInit /\ Clicked.href = "#b"
    /\ smoothL[last.link] = 1

\* C4: after the initialisation, a click on a navigation link that was
\* present then invokes hide on the menu when the menu carries the class
\* show, and invokes no hide when it does not.
C4_HideWheneverShown ==
    [][\A l \in LinkIds :
         (last'.op = "click" /\ last'.link = l /\ l \in atInit /\ links[l].nav
            /\ hasCollapse)
         => (last'.hides = IF show THEN 1 ELSE 0)]_vars

\* C5: the init functions run at most once and never while the document is
\* loading; a script evaluated while loading defers them to DOMContentLoaded,
\* any other runs them at once; no listener is registered twice.
C5_InitialisedOnce ==
    /\ [](/\ initCalls <= 1
          /\ (initCalls = 1 => readyState # "loading")
          /\ ((scriptRun /\ dclFired) => initCalls = 1)
          /\ scrollListeners <= 1
          /\ \A l \in LinkIds : smoothL[l] <= 1 /\ closeL[l] <= 1)
    /\ [][(~scriptRun /\ scriptRun')
            => (initCalls' = IF readyState = "loading" THEN 0 ELSE 1)]_vars
    /\ [][(~dclFired /\ dclFired' /\ scriptRun) => initCalls' = 1]_vars

\* the deferred initialisation has run: the script was evaluated while the
\* document was loading and DOMContentLoaded has called the init functions
C5_Witness ==
    /\ dclListeners = 1 /\ dclFired /\ initCalls = 1
    /\ scrollListeners = 1

\* C6: a scroll event changes nothing but the navbar's scrolled class, and a
\* click on a navigation link leaves that class as it is.
C6_BehavioursDoNotInterfere ==
    [][/\ (last'.op = "scroll"
             => /\ ~last'.prevented /\ last'.reqs = <<>> /\ last'.hides = 0
                /\ UNCHANGED <<show, instance, links, scrollY, smoothL, closeL,
                               scrollListeners>>)
       /\ ((last'.op = "click" /\ links[last'.link].nav)
             => scrolled' = scrolled)]_vars

\* a click on a navigation link collapsed the menu while the navbar carried
\* the scrolled class
C6_Witness ==
    /\ last.op = "click" /\ Clicked.nav /\ last.hides = 1 /\ scrolled

\* C28: a click, with the mobile menu expanded, on a navigation link whose
\* href names the existing element runs the smooth-scroll listener before
\* the listener that closes the menu: the scroll requested is to the
\* element's offsetTop minus the height of the navbar with the menu still
\* expanded, and the one hide() call (made when the menu has its Collapse
\* instance) comes after that measurement.
C28_MeasuredBeforeCollapse ==
    [][\A l \in LinkIds :
         (/\ last'.op = "click" /\ last'.link = l
          /\ links[l].nav /\ links[l].href = "#a"
          /\ smoothL[l] = 1 /\ closeL[l] = 1
          /\ hasCollapse /\ show)
         => /\ last'.prevented
            /\ last'.reqs = <<TargetTop - (IF hasNavbar
                                             THEN CollapsedHeight + MenuHeight
                                             ELSE 0)>>
            /\ last'.hides = (IF instance THEN 1 ELSE 0)
            /\ show' = ~instance]_vars

\* such a click: the scroll was requested for the expanded navbar and the
\* menu has been collapsed
C28_Witness ==
    /\ last.op = "click" /\ Clicked.nav /\ Clicked.href = "#a"
    /\ hasNavbar /\ hasCollapse
    /\ last.reqs = <<TargetTop - (CollapsedHeight + MenuHeight)>>
    /\ last.hides = 1 /\ ~show

\* C29: an anchor added to the document after the initialisation has no
\* click listener, so a click on it prevents no default action, requests no
\* scroll and triggers no collapse; and in a document without a
\* .navbar-collapse element no navigation link is given the listener that
\* closes the menu.
C29_ListenersOnlyAtInit ==
    /\ \A l \in LinkIds \ atInit : smoothL[l] = 0 /\ closeL[l] = 0
    /\ (last.op = "click" /\ last.link \notin atInit)
         => (~last.prevented /\ last.reqs = <<>> /\ last.hides = 0)
    /\ ~hasCollapse => \A l \in LinkIds : closeL[l] = 0

\* a click, with the menu expanded, on a navigation link that names the
\* existing element and was added after the init functions ran
C29_Witness ==
    /\ initCalls = 1 /\ last.op = "click" /\ last.link \notin atInit
    /\ Clicked.nav /\ Clicked.href = "#a"
    /\ hasCollapse /\ show /\ instance

(***************************************************************************)
(* Claims about the vendor task, checked under SpecVendor.                 *)
(***************************************************************************)
SyncTasks == {"vendor", "default"}

\* C7: in a run of the vendor or the default task, ./vendor/jquery is gone
\* from the moment the copy of the package begins, and it does not exist when
\* the task has finished.
C7_CleanBeforeCopy ==
    (vTask \in SyncTasks /\ (vCurrent = "vendor" \/ vDone)) => ~jquery

\* the default task has finished and found ./vendor/jquery when it started
C7_Witness ==
    vTask = "default" /\ vDone /\ hadJquery /\ ~jquery

\* C8: when the vendor task has run twice in a row with the same version of
\* the package, the second run leaves ./vendor as the first one left it.
C8_VendorIdempotent ==
    (/\ vDone
     /\ vTask \in SyncTasks
     /\ vPrev.task \in SyncTasks
     /\ vPrev.version = vVersion)
        => (vendorTree = vSnap /\ jquery = hadJquery)

\* the second of two such runs has finished, over a tree that began with a
\* file of another version and one the package does not have
C8_Witness ==
    /\ vDone /\ vTask = "vendor" /\ vPrev.task = "vendor"
    /\ vPrev.version = vVersion /\ vRuns = 2
    /\ vendorTree["css/bootstrap.css"] = distContent(vVersion)
    /\ vendorTree["js/popper.js"] # Absent

\* C30: the vendor task removes nothing but ./vendor/jquery and writes only
\* the files it copies: a file of ./vendor/bootstrap that is not among the
\* copied files of the distribution (an excluded bootstrap-grid or
\* bootstrap-reboot stylesheet, a file of an older version that the package
\* no longer has) is there, with the content the run found, during and
\* after the task, and no file of ./vendor/bootstrap is ever removed.
C30_OtherVendorFilesKept ==
    /\ [](\A f \in {"css/bootstrap-grid.css", "css/bootstrap-reboot.css",
                     "js/popper.js"} : vendorTree[f] = vSnap[f])
    /\ [][\A f \in VendorFiles :
            vendorTree[f] # Absent => vendorTree'[f] # Absent]_vars

\* the vendor task has copied version 2 of the package next to a grid
\* stylesheet of version 1 and a file the package does not have
C30_Witness ==
    /\ vTask = "vendor" /\ vDone /\ distVersion = 2
    /\ vendorTree["css/bootstrap.css"] = distContent(2)
    /\ vSnap["css/bootstrap.css"] = distContent(1)
    /\ vendorTree["css/bootstrap-grid.css"] = distContent(1)
    /\ vendorTree["js/popper.js"] = distContent(1)

(***************************************************************************)
(* Claims about the css task, checked under SpecCss.                       *)
(***************************************************************************)
Present(tree) == {n \in CssFiles : tree[n] # Absent}

\* C9: the css task reads exactly the files of css/ without a .min suffix and
\* writes for each the sibling with one; it never creates a file with two .min
\* suffixes, never writes a source stylesheet, and a second run leaves the
\* set of files of css/ as the first one left it.
C9_MinifyOnlySources ==
    /\ cStep \in {"write", "done"}
         => cInputs = {n \in CssFiles : cSnap[n] # Absent /\ n.mins = 0}
    /\ cStep = "done"
         => \A n \in cInputs :
              css[[base |-> n.base, mins |-> 1]] = cleanCSS(css[n])
    /\ \A n \in CssFiles : n.mins # 1 => css[n] = css0[n]
    /\ (cStep = "done" /\ cRuns >= 2) => Present(css) = Present(cSnap)

\* the second run has finished in a directory that held a stylesheet and a
\* stale .min.css of it before the first
C9_Witness ==
    /\ cStep = "done" /\ cRuns = 2
    /\ \E b \in CssBases :
         /\ css0[[base |-> b, mins |-> 0]] = <<"space", "rule">>
         /\ css0[[base |-> b, mins |-> 1]] = <<"space", "rule">>
         /\ css[[base |-> b, mins |-> 1]] = <<"rule">>

(***************************************************************************)
(* Claims about the dev task, checked under FairSpecDev.                   *)
(***************************************************************************)
\* C10 as stated: while the dev task runs, every change of a stylesheet or a
\* page document is eventually followed by a reload.
C10_EveryChangeReloads == (dirty # {}) ~> (dirty = {})

\* C10 as amended: once the dev task has registered its watchers, every
\* change of a stylesheet or a page document is eventually followed by a
\* reload.
C10_WatchedChangeReloads == ("watching" \in dirty) ~> (dirty = {})

\* the reload callback of the page watcher is executing after a page document
\* changed under the registered watchers
C10_Witness ==
    /\ dPhase = "watching" /\ "watching" \in dirty
    /\ reloading = {"html"}

C12_ServeThenWatchForever ==
    /\ []((\E k \in Kinds : watch[k].on) => served)
    /\ [](dPhase # "done")
    /\ [][dPhase = "watching" => (dPhase' = "watching" \/ Terminate)]_vars

\* the task is watching, with the server up, while a second change is queued
\* behind a reload in progress
C12_Witness ==
    /\ dPhase = "watching" /\ served
    /\ watch["css"].queued /\ reloading = {"css"}

(***************************************************************************)
(* Claims about the convention checks, checked under SpecCheck.            *)
(***************************************************************************)
\* the attribute `name` itself, not an attribute whose name ends in it
plainAttrs(t, name) ==
    {i \in DOMAIN t.attrs : t.attrs[i].pre = "" /\ t.attrs[i].name = name}

\* an anchor whose href starts with http:// or https://
ExternalAnchor(t) ==
    /\ t.tag = "a"
    /\ \E i \in plainAttrs(t, "href") :
         startsWith(t.attrs[i].val, "http://") \/ startsWith(t.attrs[i].val, "https://")

\* an anchor whose href ends in .html and has no scheme
InternalAnchor(t) ==
    /\ t.tag = "a"
    /\ ~ExternalAnchor(t)
    /\ \E i \in plainAttrs(t, "href") : endsWith(t.attrs[i].val, ".html")

\* the tag carries the attribute with all the given words in its value
Carries(t, name, words) ==
    \E i \in plainAttrs(t, name) : words \subseteq Range(t.attrs[i].val)

\* C13: for every page and every anchor in it whose href starts with http://
\* or https://, the link tests pass only if that anchor carries
\* target="_blank" and a rel with both noopener and noreferrer; one external
\* anchor lacking any of the three makes the tests fail for the page.
C13_ExternalLinksSecured ==
    (/\ suite = "links" /\ exists
     /\ verdict["target"] = "pass"
     /\ verdict["rel"] = "pass"
     /\ verdict["security"] = "pass")
      => \A i \in DOMAIN page :
           ExternalAnchor(page[i])
             => /\ Carries(page[i], "target", {"_blank"})
                /\ Carries(page[i], "rel", {"noopener", "noreferrer"})

\* C14: for every page and every anchor whose href ends in .html and has no
\* scheme, the internal-link test fails if the anchor carries
\* target="_blank": no such anchor is accepted.
C14_InternalLinksSameTab ==
    (/\ suite = "links" /\ exists
     /\ \E i \in DOMAIN page :
          InternalAnchor(page[i]) /\ Carries(page[i], "target", {"_blank"}))
      => verdict["internal"] # "pass"

\* the levels of the headings of a page, in document order
Levels(html) == extractHeadings(html)

Skips(h) == \E i \in 2..Len(h) : h[i] - h[i - 1] > 1

\* C15: for every sequence of heading levels in document order, the heading
\* test fails whenever some heading is more than one level deeper than the
\* heading before it, and a decrease of any size between adjacent headings
\* is never a cause of failure: a sequence with an h1 and without such a
\* skip passes.
C15_HeadingsSkipNoLevel ==
    (suite = "headings" /\ exists /\ verdict["structure"] # "none")
      => /\ Skips(Levels(page)) => verdict["structure"] = "fail"
         /\ (~Skips(Levels(page)) /\ 1 \in Range(Levels(page)))
              => verdict["structure"] = "pass"

\* the test has failed a page whose headings go from h2 to h4
C15_Witness ==
    /\ suite = "headings" /\ exists
    /\ Levels(page) = <<1, 2, 4>>
    /\ verdict["structure"] = "fail"

\* an image marked decorative: role="presentation" or aria-hidden="true"
Decorative(t) ==
    \/ Carries(t, "role", {"presentation"})
    \/ Carries(t, "aria-hidden", {"true"})

\* the image has an alt attribute whose trimmed value has at least three
\* characters and is none of image, photo, picture, img in any case
DescriptiveAlt(t) ==
    /\ plainAttrs(t, "alt") # {}
    /\ \A i \in plainAttrs(t, "alt") :
         /\ Len(trim(t.attrs[i].val)) >= 3
         /\ toLowerCase(trim(t.attrs[i].val)) \notin genericTerms

AltTestsPass ==
    /\ suite = "alt" /\ exists
    /\ \A t \in DOMAIN verdict : verdict[t] = "pass"

\* C16: for every image not marked decorative, the alt text tests pass only
\* if the image has an alt attribute whose trimmed value has at least 3
\* characters and is not, ignoring case, image, photo, picture or img.
C16_AltTextDescriptive ==
    AltTestsPass
      => \A i \in DOMAIN page :
           (page[i].tag = "img" /\ ~Decorative(page[i])) => DescriptiveAlt(page[i])

\* C17: an image marked decorative with an empty alt attribute is exempt
\* from the non-emptiness requirement: a page on which every image either
\* has a descriptive alt or is such an image passes all the alt text tests.
C17_DecorativeExempt ==
    (/\ suite = "alt" /\ exists
     /\ \A t \in DOMAIN verdict : verdict[t] # "none"
     /\ \A i \in DOMAIN page :
          \/ DescriptiveAlt(page[i])
          \/ /\ Decorative(page[i])
             /\ plainAttrs(page[i], "alt") # {}
             /\ \A j \in occurrences(page[i], "alt") : page[i].attrs[j].val = <<>>)
      => \A t \in DOMAIN verdict : verdict[t] = "pass"

\* the address a stylesheet, script or image tag refers to
RefUrls(t) ==
    {t.attrs[i].val : i \in plainAttrs(t, IF t.tag = "link" THEN "href" ELSE "src")}

\* an externally hosted address: absolute http(s) or protocol-relative; a
\* protocol-relative address names the resource its https form names
External(url) == \E p \in {"http://", "https://", "//"} : startsWith(url, p)
Resolved(url) == IF startsWith(url, "//") THEN prependHttps(url) ELSE url

\* the distinct external resource URLs of a page
ExternalUrls(html) ==
    {Resolved(url) : url \in
        {u \in UNION {RefUrls(html[i]) :
                        i \in {j \in DOMAIN html :
                                 html[j].tag \in {"link", "script", "img"}}} :
           External(u)}}

\* C18: for every page, the resource-count test counts the distinct external
\* resource URLs of the page, a URL referred to repeatedly counting once,
\* and passes if and only if that count is at most 15.
C18_AtMostFifteenDistinct ==
    (suite = "resources" /\ exists /\ verdict["count"] # "none")
      => (verdict["count"] = "pass" <=> Cardinality(ExternalUrls(page)) <= 15)

\* C19: for every page, the duplicate-resource test fails if and only if
\* some URL occurs more than once among the stylesheet, script and image
\* references extracted from the page, whatever the number of distinct URLs.
C19_FailsIffRepeatedUrl ==
    (suite = "resources" /\ exists /\ verdict["duplicates"] # "none")
      => LET refs == extractExternalResources(page) IN
         (verdict["duplicates"] = "fail"
            <=> \E i, j \in DOMAIN refs : i # j /\ refs[i] = refs[j])

\* a page within the limit of distinct URLs fails the duplicate test for one
\* URL referred to twice, after passing the count test
C19_Witness ==
    /\ suite = "resources" /\ exists
    /\ verdict["count"] = "pass" /\ verdict["duplicates"] = "fail"
    /\ Len(extractExternalResources(page)) = 16
    /\ Cardinality(Range(extractExternalResources(page))) = 15

\* C20: every test, when the file it reads does not exist, is skipped and
\* reported as passing: no test fails or throws because a page document or
\* a stylesheet is missing.
C20_MissingFileIsSkipped ==
    ~exists => \A t \in DOMAIN verdict : verdict[t] \in {"none", "pass"}


\* C25: the target requirement on an external anchor is satisfied only by
\* the attribute target itself: the target test fails a page with an
\* external anchor that has data-target="_blank" and no target attribute.
C25_DataTargetIsNoTarget ==
    (/\ suite = "links" /\ exists
     /\ verdict["target"] # "none"
     /\ \E i \in DOMAIN page :
          /\ ExternalAnchor(page[i])
          /\ plainAttrs(page[i], "target") = {}
          /\ occurrences(page[i], "target") # {})
      => verdict["target"] = "fail"

\* C26: the extraction of a page lists every externally hosted stylesheet,
\* script and image reference, absolute or protocol-relative: the URLs it
\* returns are the external resource URLs of the page, whatever the kind of
\* the tag that refers to them.
C26_EveryKindInBothForms ==
    suite = "resources"
      => Range(extractExternalResources(page)) = ExternalUrls(page)


\* C21: in a test that goes through several page documents, a violation
\* found in one of them does not keep the others from being evaluated: when
\* the test has its result, the callback has been called on every listed
\* file that exists.
C21_EveryFileEvaluated ==
    (suite = "forEach" /\ \E t \in DOMAIN verdict : verdict[t] # "none")
      => \A i \in DOMAIN files : files[i].exists => i <= cursor


\* C22: for every page, the lazy loading test fails if some image that comes
\* after the first section of the page, in document order, does not declare
\* loading="lazy".
C22_LazyAfterFirstSection ==
    (/\ suite = "lazy" /\ exists /\ verdict["lazy"] # "none"
     /\ \E i \in DOMAIN page :
          /\ page[i].tag = "img"
          /\ \E j \in 1..(i - 1) : page[j].tag = "section"
          /\ ~Carries(page[i], "loading", {"lazy"}))
      => verdict["lazy"] = "fail"


\* C23: the touch target test passes a stylesheet with a .social-link rule
\* block only if that block declares a min-height of at least 44px: a block
\* that declares no min-height, or one below 44px, makes the test fail.
C23_TouchTargetDeclared ==
    (/\ suite = "touch" /\ exists /\ verdict["touch"] = "pass"
     /\ \E i \in DOMAIN page : page[i].selector = ".social-link")
      => \E i \in DOMAIN page :
           /\ page[i].selector = ".social-link"
           /\ \E k \in DOMAIN page[i].decls :
                LET d == page[i].decls[k] IN
                /\ d.name = "min-height" /\ d.unit = "px"
                /\ parseInt(d.digits) >= 44


\* the colour declared for a name with six hex digits, <<>> without one
DeclaredColor(name) ==
    LET found == SelectSeq(page, LAMBDA d : d.name = name /\ Len(d.value) = 6)
    IN  IF found = <<>> THEN <<>> ELSE hexToRgb(found[1].value)

White == <<255, 255, 255>>

\* both colours are declared and (L_lighter + 0.05) / (L_darker + 0.05) is
\* below the minimum, given in tenths
BelowMinimum(fg, bg, tenths) ==
    /\ fg # <<>> /\ bg # <<>>
    /\ LET l1 == getLuminance(fg)
           l2 == getLuminance(bg)
       IN  IF l1 >= l2 THEN (l1 + 5000) * 10 < tenths * (l2 + 5000)
                       ELSE (l2 + 5000) * 10 < tenths * (l1 + 5000)

\* the pairs of a test with a ratio below their minimum
TooLow(t) ==
    LET bg == DeclaredColor("--color-background")
        onBackground(name, tenths) == BelowMinimum(DeclaredColor(name), bg, tenths)
    IN  CASE t = "text" -> onBackground("--color-text", 45)
          [] t = "link" -> onBackground("--color-link", 45)
          [] t = "secondary" -> onBackground("--color-secondary", 30)
          [] t = "primary" -> BelowMinimum(DeclaredColor("--color-primary"), White, 30)
          [] t = "accent" -> BelowMinimum(DeclaredColor("--color-accent"), White, 30)
          [] t = "combinations" ->
               \/ onBackground("--color-text", 45)
               \/ onBackground("--color-link", 45)
               \/ \E name \in {"--color-primary", "--color-accent"} :
                    BelowMinimum(DeclaredColor(name), DeclaredColor("--color-white"), 30)

\* C24: a contrast test fails exactly when, for a pair of its colours that
\* are both declared, (L_lighter + 0.05) / (L_darker + 0.05) is below the
\* minimum of the pair: 4.5 for text and link on the background, 3.0 for
\* primary and accent on white and for secondary on the background; and the
\* ratio the tests compute is the same for the two orders of its colours
\* and is never below 1.
C24_ContrastAgainstMinimum ==
    (suite = "contrast" /\ exists)
      => /\ \A t \in DOMAIN verdict :
              verdict[t] # "none" => (verdict[t] = "fail" <=> TooLow(t))
         /\ \A d1, d2 \in {d \in Range(page) : Len(d.value) = 6} :
              LET ratio == getContrastRatio(hexToRgb(d1.value), hexToRgb(d2.value))
              IN  /\ ratio = getContrastRatio(hexToRgb(d2.value), hexToRgb(d1.value))
                  /\ ratio.num >= ratio.den

\* all six tests have run on a stylesheet whose link colour #777777 has a
\* ratio of 4.48 to the white background: the link test and the test of the
\* combinations fail, the others pass
C24_Witness ==
    /\ suite = "contrast" /\ exists
    /\ page[1].name = "--color-link" /\ page[1].value = <<"7", "7", "7", "7", "7", "7">>
    /\ DeclaredColor("--color-background") = White
    /\ verdict["link"] = "fail" /\ verdict["combinations"] = "fail"
    /\ \A t \in {"text", "primary", "accent", "secondary"} : verdict[t] = "pass"


\* C27: the verdict of a check for a page is a function of the text of the
\* file: two runs of the overflow test on the same unchanged file give the
\* same result, whichever viewport widths each run draws.
C27_VerdictOfTextAlone ==
    (suite = "layout" /\ verdict["overflow"] # "none" /\ verdict["again"] # "none")
      => verdict["overflow"] = verdict["again"]

====
